---- MODULE Spec2Model ----
(***************************************************************************)
(* A model of battlestar_envoy_grapher.py: the name normalizer, the role   *)
(* enumeration, the two-source collection of the adjacency relation with   *)
(* its worker pool, the recursive graph builder and the degree pruner.     *)
(*                                                                         *)
(* Role names are sequences of one-character strings, so that the regular  *)
(* expression search and rstrip of simplify_service_name and the substring *)
(* search of dbre act on characters as the Python code does.               *)
(***************************************************************************)
EXTENDS Integers, Sequences, FiniteSets, TLC

VARIABLES
    service,        \* simplify_service_name: the argument
    simplified,     \* simplify_service_name: the returned value ("none" before the call)
    npc,            \* simplify_service_name: "call" before, "ret" after the call
    resimplified,   \* the value returned when the returned value is passed again
    service_entries,\* self.service_entries: the adjacency relation, key -> set of names
    graph,          \* the nx.DiGraph of main: [nodes, edges]
    stack,          \* the active build_graph calls: [service, todo], innermost last
    bpc,            \* main: "main" (loop over services), "build", "clean", "done"
    seed,           \* the service argument of the outermost build_graph call
    seeds,          \* the service arguments of all outermost build_graph calls so far
    ncalls,         \* number of outermost build_graph calls made so far
    clean_arg,      \* the graph as it was passed to clean_graph
    min_connections,\* the thresholds passed to clean_graph
    max_connections,
    now,            \* time.time()
    files,          \* the cache files: name -> [exists, mtime, content]
    clog,           \* the calls of cache() made since the clock last moved (last two)
    self_roles,     \* self.roles
    role_pages,     \* the pages the Roles endpoint serves, each a list of names
    rstack,         \* the active get_roles_list calls: [page, roles, pc], innermost last
    rpc,            \* get_roles_list: "call", "run", "cached", "done", "crashed"
    entry_pages,    \* the pages the ServiceEntries endpoint serves
    rule_pages,     \* role -> the pages of ingress role names its Rules endpoint serves
    ppc,            \* fetch_backends_from_battlestar: position of the parent
    epages_done,    \* fetch_service_entries: number of pages processed
    q,              \* the Queue: the roles waiting to be taken
    unfinished,     \* q.unfinished_tasks, which q.join() waits to become zero
    wpc,            \* worker -> position in fetch_firewall_rules
    wrole,          \* worker -> source_role
    wurl,           \* worker -> url
    witems,         \* worker -> the rules of results['items'] not yet processed
    wnext,          \* worker -> results['meta']['next'] (0: none)
    wdest,          \* worker -> destination_role
    fails           \* number of requests that have failed

normVars == <<service, simplified, npc, resimplified>>

buildVars == <<service_entries, graph, stack, bpc, seed, seeds, ncalls, clean_arg,
               min_connections, max_connections>>

cacheVars == <<now, files, clog>>

rolesVars == <<self_roles, role_pages, rstack, rpc>>

collVars == <<entry_pages, rule_pages, ppc, epages_done, q, unfinished, wpc,
              wrole, wurl, witems, wnext, wdest, fails>>

vars == <<service, simplified, npc, resimplified, service_entries, graph, stack, bpc, seed,
          seeds, ncalls, clean_arg, min_connections, max_connections, now, files, clog,
          self_roles, role_pages, rstack, rpc, entry_pages, rule_pages, ppc,
          epages_done, q, unfinished, wpc, wrole, wurl, witems, wnext, wdest,
          fails>>

(***************************************************************************)
(* Characters and strings                                                  *)
(***************************************************************************)
Digits == {"0", "1", "2", "3", "4", "5", "6", "7", "8", "9"}

\* the argument of service.rstrip('-0123456789')
StripChars == {"-"} \cup Digits

Last(s) == s[Len(s)]

\* re.search(r'-\d+$', s): a hyphen followed by one or more digits, up to the
\* end of the string or up to a newline that is the last character
HyphenDigitsAt(s, i, end) ==
    /\ i < end
    /\ s[i] = "-"
    /\ \A j \in (i + 1)..end : s[j] \in Digits

SearchHyphenDigits(s) ==
    \/ \E i \in 1..Len(s) : HyphenDigitsAt(s, i, Len(s))
    \/ /\ Len(s) >= 1
       /\ Last(s) = "\n"
       /\ \E i \in 1..(Len(s) - 1) : HyphenDigitsAt(s, i, Len(s) - 1)

\* str.rstrip(chars): drop trailing characters as long as they are in chars
RECURSIVE RStrip(_, _)
RStrip(s, chars) ==
    IF Len(s) > 0 /\ Last(s) \in chars
    THEN RStrip(SubSeq(s, 1, Len(s) - 1), chars)
    ELSE s

\* a normalizer that removes one hyphen-and-digits suffix and no more
simplify_one_suffix(s) ==
    IF \E i \in 1..Len(s) : HyphenDigitsAt(s, i, Len(s))
    THEN SubSeq(s, 1, (CHOOSE i \in 1..Len(s) : HyphenDigitsAt(s, i, Len(s))) - 1)
    ELSE s

\* rstrip that forgets the hyphen
simplify_digits_only(s) ==
    IF SearchHyphenDigits(s) THEN RStrip(s, Digits) ELSE s

simplify_service_name(s) ==
    IF SearchHyphenDigits(s) THEN RStrip(s, StripChars) ELSE s

(***************************************************************************)
(* The parts of the state a specification does not use                     *)
(***************************************************************************)
EmptyGraph == [nodes |-> {}, edges |-> {}]

NormIdle ==
    /\ service = <<>>
    /\ simplified = "none"
    /\ npc = "idle"
    /\ resimplified = "none"

BuildIdle ==
    /\ service_entries = <<>>
    /\ graph = EmptyGraph
    /\ stack = <<>>
    /\ bpc = "idle"
    /\ seed = <<>>
    /\ seeds = <<>>
    /\ ncalls = 0
    /\ clean_arg = EmptyGraph
    /\ min_connections = 0
    /\ max_connections = 0

\* a Python value that may be None
None == [none |-> TRUE, val |-> <<>>]

Some(v) == [none |-> FALSE, val |-> v]

\* a file that does not exist
NoFile == [exists |-> FALSE, mtime |-> 0, content |-> [kind |-> "empty", val |-> <<>>]]

CacheIdle ==
    /\ now = 0
    /\ files = [f \in {"roles.txt", "service_entries.txt"} |-> NoFile]
    /\ clog = <<>>

RolesIdle ==
    /\ self_roles = None
    /\ role_pages = <<>>
    /\ rstack = <<>>
    /\ rpc = "idle"

CollIdle ==
    /\ entry_pages = <<>>
    /\ rule_pages = <<>>
    /\ ppc = "idle"
    /\ epages_done = 0
    /\ q = <<>>
    /\ unfinished = 0
    /\ wpc = <<>>
    /\ wrole = <<>>
    /\ wurl = <<>>
    /\ witems = <<>>
    /\ wnext = <<>>
    /\ wdest = <<>>
    /\ fails = 0

(***************************************************************************)
(* Specification of the normalizer: any string over a small alphabet, up   *)
(* to MaxNameLen characters, is passed to simplify_service_name.           *)
(***************************************************************************)
MaxNameLen == 5

Alphabet == {"a", "-", "1", "2", "\n"}

RECURSIVE StringsUpTo(_)
StringsUpTo(n) ==
    IF n = 0 THEN {<<>>}
    ELSE LET shorter == StringsUpTo(n - 1)
         IN  shorter \cup {Append(s, c) : s \in {t \in shorter : Len(t) = n - 1}, c \in Alphabet}

InitNorm ==
    /\ service \in StringsUpTo(MaxNameLen)
    /\ simplified = "none"
    /\ npc = "call"
    /\ resimplified = "none"
    /\ BuildIdle
    /\ CacheIdle
    /\ RolesIdle
    /\ CollIdle

CallSimplify ==
    /\ npc = "call"
    /\ simplified' = simplify_service_name(service)
    /\ npc' = "ret"
    /\ UNCHANGED <<service, resimplified>>
    /\ UNCHANGED <<buildVars, cacheVars, rolesVars, collVars>>

\* simplify_service_name called on what it returned, as get_backends does
\* with a name main has already simplified (lines 347 and 248)
CallSimplifyAgain ==
    /\ npc = "ret"
    /\ resimplified' = simplify_service_name(simplified)
    /\ npc' = "ret2"
    /\ UNCHANGED <<service, simplified>>
    /\ UNCHANGED <<buildVars, cacheVars, rolesVars, collVars>>

NextNorm ==
    \/ CallSimplify
    \/ CallSimplifyAgain

SpecNorm == InitNorm /\ [][NextNorm]_vars

\* the name ends in a hyphen followed by one or more digits
EndsInHyphenDigits(s) == \E i \in 1..Len(s) : HyphenDigitsAt(s, i, Len(s))

\* the position of the hyphen of the last hyphen-and-digits suffix
SuffixStart(s) == CHOOSE i \in 1..Len(s) : HyphenDigitsAt(s, i, Len(s))

\* C10 as stated: a name ending in a hyphen and digits loses exactly that one
\* suffix and nothing else; every other name is returned unchanged.
C10_OneSuffixRemoved ==
    npc = "ret" =>
        IF EndsInHyphenDigits(service)
        THEN simplified = SubSeq(service, 1, SuffixStart(service) - 1)
        ELSE simplified = service

\* C10 amended: a name ending in a hyphen and digits loses its whole trailing
\* run of hyphens and digits (what remains is empty or ends in another
\* character); every other name is returned unchanged.
C10_TrailingRunRemoved ==
    npc = "ret" =>
        IF EndsInHyphenDigits(service)
        THEN /\ \E k \in 0..Len(service) :
                    /\ simplified = SubSeq(service, 1, k)
                    /\ \A j \in (k + 1)..Len(service) : service[j] \in StripChars
             /\ simplified = <<>> \/ Last(simplified) \notin StripChars
        ELSE simplified = service

\* a name with two numeric suffixes has been normalized
C10_Witness ==
    /\ npc = "ret"
    /\ service = <<"a", "-", "1", "-", "2">>
    /\ simplified = <<"a">>

\* C11: normalizing what normalize returned gives the same name again, and
\* what normalize returns does not end in a hyphen followed by digits.
C11_Idempotent ==
    npc = "ret2" =>
        /\ resimplified = simplified
        /\ ~EndsInHyphenDigits(simplified)

\* a name with two numeric suffixes has been normalized twice
C11_Witness ==
    /\ npc = "ret2"
    /\ service = <<"a", "-", "1", "-", "2">>
    /\ simplified = <<"a">>
    /\ resimplified = <<"a">>

(***************************************************************************)
(* The directed graph (networkx DiGraph) and the adjacency relation        *)
(***************************************************************************)
has_edge(g, u, v) == <<u, v>> \in g.edges

\* an add_edge that stores the edge in the opposite direction
add_edge_reversed(g, u, v) ==
    [nodes |-> g.nodes \cup {u, v}, edges |-> g.edges \cup {<<v, u>>}]

add_edge(g, u, v) ==
    [nodes |-> g.nodes \cup {u, v}, edges |-> g.edges \cup {<<u, v>>}]

\* remove_node deletes the node and every edge into or out of it
remove_node(g, n) ==
    [nodes |-> g.nodes \ {n},
     edges |-> {e \in g.edges : e[1] # n /\ e[2] # n}]

\* graph.degree(): in-degree plus out-degree (a self-loop counts twice)
degree(g, n) ==
    Cardinality({e \in g.edges : e[1] = n}) + Cardinality({e \in g.edges : e[2] = n})

\* pattern.search(s) for a literal pattern: the pattern occurs somewhere in s
HasSubstring(s, p) ==
    \E i \in 1..(Len(s) - Len(p) + 1) : SubSeq(s, i, i + Len(p) - 1) = p

\* dbre = re.compile('mysql|redis')
dbre_search(s) ==
    \/ HasSubstring(s, <<"m", "y", "s", "q", "l">>)
    \/ HasSubstring(s, <<"r", "e", "d", "i", "s">>)

\* reading self.service_entries[key] (a defaultdict(set)): the value read ...
Lookup(se, key) == IF key \in DOMAIN se THEN se[key] ELSE {}

\* ... and the dictionary after the read, which has created a missing key
Touch(se, key) == IF key \in DOMAIN se THEN se ELSE se @@ (key :> {})

\* get_backends(service): the set returned
get_backends(se, s) == Lookup(se, simplify_service_name(s))

\* get_backends(service): self.service_entries after the call
get_backends_effect(se, s) == Touch(se, simplify_service_name(s))

\* the skip conditions without the test for an edge in the reverse direction
SkipDependency_forward_only(g, s, d) ==
    \/ d = s
    \/ has_edge(g, s, d)
    \/ dbre_search(s) \/ dbre_search(d)

\* the skip conditions without the test against the exclusion pattern
SkipDependency_no_pattern(g, s, d) ==
    \/ d = s
    \/ has_edge(g, s, d) \/ has_edge(g, d, s)

\* the skip conditions of a traversal that never returns to a node it has seen
SkipDependency_visited(g, s, d) ==
    \/ d = s
    \/ d \in g.nodes
    \/ has_edge(g, s, d) \/ has_edge(g, d, s)
    \/ dbre_search(s) \/ dbre_search(d)

\* build_graph: the three `continue` conditions of the loop over dependencies
SkipDependency(g, s, d) ==
    \/ d = s
    \/ has_edge(g, s, d) \/ has_edge(g, d, s)
    \/ dbre_search(s) \/ dbre_search(d)

RECURSIVE build_graph(_, _, _), BuildLoop(_, _, _, _)
\* the loop of build_graph over the dependencies left in todo, taken in one
\* fixed order
BuildLoop(se, g, s, todo) ==
    IF todo = {} THEN g
    ELSE LET d == CHOOSE x \in todo : TRUE
         IN  IF SkipDependency(g, s, d)
             THEN BuildLoop(se, g, s, todo \ {d})
             ELSE BuildLoop(se, build_graph(se, add_edge(g, s, d), d), s, todo \ {d})

\* build_graph(service, graph) run to its return with that iteration order
build_graph(se, g, s) == BuildLoop(se, g, s, get_backends(se, s))

RECURSIVE BuildSeeds(_, _, _)
\* build_graph called for one seed after the other on the same graph
BuildSeeds(se, g, sds) ==
    IF sds = <<>> THEN g
    ELSE BuildSeeds(se, build_graph(se, g, Head(sds)), Tail(sds))

(***************************************************************************)
(* clean_graph                                                             *)
(***************************************************************************)
RECURSIVE RemoveNodes(_, _)
\* for node in nodes_to_remove: graph.remove_node(node)
RemoveNodes(g, ns) ==
    IF ns = {} THEN g
    ELSE LET n == CHOOSE x \in ns : TRUE
         IN  RemoveNodes(remove_node(g, n), ns \ {n})

\* a first pass that also removes the nodes with exactly max_connections
TooManyConnections_inclusive(g, mx) == {n \in g.nodes : degree(g, n) >= mx}

\* [node for node, degree in graph.degree() if degree > max_connections]
TooManyConnections(g, mx) == {n \in g.nodes : degree(g, n) > mx}

\* [node for node, degree in graph.degree() if degree <= min_connections]
TooFewConnections(g, mn) == {n \in g.nodes : degree(g, n) <= mn}

(***************************************************************************)
(* Specification of the graph builder and pruner: main's loop over the     *)
(* requested services, direct calls of build_graph as the tests make them, *)
(* then clean_graph.  The adjacency relation is any relation over a small  *)
(* set of names whose keys are normalized names with non-empty sets, which *)
(* is what collection leaves behind.                                       *)
(***************************************************************************)
MaxDeps == 2

MaxBuilds == 2

BuildNames == {<<"a">>, <<"b">>, <<"b", "-", "1">>, <<"m", "y", "s", "q", "l">>}

AdjKeys == {simplify_service_name(n) : n \in BuildNames}

DepSets == {D \in SUBSET BuildNames : Cardinality(D) <= MaxDeps}

Thresholds == (0 - 1)..3

Restrict(f, S) == [k \in S |-> f[k]]

Top == stack[Len(stack)]

InitBuild ==
    /\ \E f \in [AdjKeys -> DepSets] :
          service_entries = Restrict(f, {k \in AdjKeys : f[k] # {}})
    /\ graph = EmptyGraph
    /\ stack = <<>>
    /\ bpc = "main"
    /\ seed = <<>>
    /\ seeds = <<>>
    /\ ncalls = 0
    /\ clean_arg = EmptyGraph
    /\ min_connections = 0
    /\ max_connections = 0
    /\ NormIdle
    /\ CacheIdle
    /\ RolesIdle
    /\ CollIdle

\* main, lines 346-350: one iteration of the loop over services
MainIter ==
    /\ bpc = "main"
    /\ \E s \in BuildNames :
          LET svc == simplify_service_name(s)
          IN  IF Lookup(service_entries, svc) = {}
              THEN /\ service_entries' = Touch(service_entries, svc)
                   /\ UNCHANGED <<stack, bpc, seed, seeds, ncalls>>
              ELSE /\ ncalls < MaxBuilds
                   /\ service_entries' = get_backends_effect(Touch(service_entries, svc), svc)
                   /\ stack' = <<[service |-> svc, todo |-> get_backends(service_entries, svc)]>>
                   /\ bpc' = "build"
                   /\ seed' = svc
                   /\ seeds' = Append(seeds, svc)
                   /\ ncalls' = ncalls + 1
    /\ UNCHANGED <<graph, clean_arg, min_connections, max_connections>>
    /\ UNCHANGED <<normVars, cacheVars, rolesVars, collVars>>

\* build_graph(service, graph) called directly on the shared graph
BuildGraphCall ==
    /\ bpc = "main"
    /\ ncalls < MaxBuilds
    /\ \E s \in BuildNames :
          /\ service_entries' = get_backends_effect(service_entries, s)
          /\ stack' = <<[service |-> s, todo |-> get_backends(service_entries, s)]>>
          /\ seed' = s
          /\ seeds' = Append(seeds, s)
    /\ bpc' = "build"
    /\ ncalls' = ncalls + 1
    /\ UNCHANGED <<graph, clean_arg, min_connections, max_connections>>
    /\ UNCHANGED <<normVars, cacheVars, rolesVars, collVars>>

\* build_graph, lines 260-268: one iteration of the loop over dependencies,
\* in whatever order the set yields them and, when the edge is added, up to
\* the first statement of the recursive call
BuildStep ==
    /\ bpc = "build"
    /\ Top.todo # {}
    /\ \E d \in Top.todo :
          LET s == Top.service
              rest == [stack EXCEPT ![Len(stack)].todo = @ \ {d}]
          IN  IF SkipDependency(graph, s, d)
              THEN /\ stack' = rest
                   /\ UNCHANGED <<graph, service_entries>>
              ELSE /\ graph' = add_edge(graph, s, d)
                   /\ service_entries' = get_backends_effect(service_entries, d)
                   /\ stack' = Append(rest, [service |-> d,
                                             todo |-> get_backends(service_entries, d)])
    /\ UNCHANGED <<bpc, seed, seeds, ncalls, clean_arg, min_connections, max_connections>>
    /\ UNCHANGED <<normVars, cacheVars, rolesVars, collVars>>

\* build_graph, line 269: the loop is over, return graph
BuildReturn ==
    /\ bpc = "build"
    /\ Top.todo = {}
    /\ stack' = SubSeq(stack, 1, Len(stack) - 1)
    /\ bpc' = IF Len(stack) = 1 THEN "main" ELSE "build"
    /\ UNCHANGED <<service_entries, graph, seed, seeds, ncalls, clean_arg,
                   min_connections, max_connections>>
    /\ UNCHANGED <<normVars, cacheVars, rolesVars, collVars>>

\* clean_graph, lines 273-275: remove the nodes with too many connections
CleanPass1 ==
    /\ bpc = "main"
    /\ \E mn \in Thresholds, mx \in Thresholds :
          /\ min_connections' = mn
          /\ max_connections' = mx
          /\ graph' = RemoveNodes(graph, TooManyConnections(graph, mx))
    /\ clean_arg' = graph
    /\ bpc' = "clean"
    /\ UNCHANGED <<service_entries, stack, seed, seeds, ncalls>>
    /\ UNCHANGED <<normVars, cacheVars, rolesVars, collVars>>

\* clean_graph, lines 278-282: remove the nodes with too few connections
CleanPass2 ==
    /\ bpc = "clean"
    /\ graph' = RemoveNodes(graph, TooFewConnections(graph, min_connections))
    /\ bpc' = "done"
    /\ UNCHANGED <<service_entries, stack, seed, seeds, ncalls, clean_arg,
                   min_connections, max_connections>>
    /\ UNCHANGED <<normVars, cacheVars, rolesVars, collVars>>

NextBuild ==
    \/ MainIter
    \/ BuildGraphCall
    \/ BuildStep
    \/ BuildReturn
    \/ CleanPass1
    \/ CleanPass2

SpecBuild == InitBuild /\ [][NextBuild]_vars

(***************************************************************************)
(* Specification of the pruner alone: clean_graph applied to any directed  *)
(* graph over three nodes, self-loops and anti-parallel edges included.    *)
(***************************************************************************)
PruneNodes == {<<"a">>, <<"b">>, <<"b", "-", "1">>}

InitPrune ==
    /\ \E N \in SUBSET PruneNodes :
          \E E \in SUBSET (N \X N) : graph = [nodes |-> N, edges |-> E]
    /\ service_entries = <<>>
    /\ stack = <<>>
    /\ bpc = "main"
    /\ seed = <<>>
    /\ seeds = <<>>
    /\ ncalls = 0
    /\ clean_arg = EmptyGraph
    /\ min_connections = 0
    /\ max_connections = 0
    /\ NormIdle
    /\ CacheIdle
    /\ RolesIdle
    /\ CollIdle

NextPrune ==
    \/ CleanPass1
    \/ CleanPass2

SpecPrune == InitPrune /\ [][NextPrune]_vars

(***************************************************************************)
(* Properties of the graph builder                                         *)
(***************************************************************************)
\* C6: whatever builds have run into the graph, and whether or not it has
\* been pruned, the graph has no self-loop, never has both A->B and B->A, and
\* has no edge with an endpoint whose name contains mysql or redis.
C6_GraphInvariant ==
    \A e \in graph.edges :
        /\ e[1] # e[2]
        /\ <<e[2], e[1]>> \notin graph.edges
        /\ ~dbre_search(e[1])
        /\ ~dbre_search(e[2])

\* two builds over a relation in which a and b name each other and a names
\* mysql have accumulated into one graph, which was then pruned
C6_Witness ==
    /\ bpc = "done"
    /\ ncalls = 2
    /\ <<"b">> \in Lookup(service_entries, <<"a">>)
    /\ <<"a">> \in Lookup(service_entries, <<"b">>)
    /\ <<"m", "y", "s", "q", "l">> \in Lookup(service_entries, <<"a">>)
    /\ Lookup(service_entries, <<"m", "y", "s", "q", "l">>) # {}
    /\ graph.edges # {}

\* the first build has returned: the graph is build(seed, empty graph)
FirstBuildDone == bpc = "main" /\ ncalls = 1

\* the dependencies of the seed that C7 speaks of
EligibleDeps ==
    {d \in get_backends(service_entries, seed) : d # seed /\ ~dbre_search(d)}

\* no adjacency set names the seed
SeedUnreferenced == \A k \in DOMAIN service_entries : seed \notin service_entries[k]

\* C7 as stated: build(s, empty graph), s not excluded, has s->d and not d->s
\* for every eligible dependency d of s.
C7_ForwardEdges ==
    (FirstBuildDone /\ ~dbre_search(seed)) =>
        \A d \in EligibleDeps :
            has_edge(graph, seed, d) /\ ~has_edge(graph, d, seed)

\* C7 amended: build(s, empty graph), s not excluded, joins s and every
\* eligible dependency d of s by exactly one of s->d and d->s, and by s->d
\* when no adjacency set names s.
C7_OneDirection ==
    (FirstBuildDone /\ ~dbre_search(seed)) =>
        \A d \in EligibleDeps :
            /\ has_edge(graph, seed, d) # has_edge(graph, d, seed)
            /\ SeedUnreferenced => has_edge(graph, seed, d)

\* build(a, empty graph) where b is a dependency of a, and b-1 reaches a
C7_Witness ==
    /\ FirstBuildDone
    /\ seed = <<"a">>
    /\ EligibleDeps = {<<"b">>, <<"b", "-", "1">>}
    /\ has_edge(graph, <<"a">>, <<"b">>)
    /\ has_edge(graph, <<"b", "-", "1">>, <<"a">>)

(***************************************************************************)
(* Properties of the pruner                                                *)
(***************************************************************************)
\* the subgraph left when only the nodes in N are kept
Induced(g, N) ==
    [nodes |-> g.nodes \cap N,
     edges |-> {e \in g.edges : e[1] \in N /\ e[2] \in N}]

AfterPass1(g, mx) == Induced(g, {n \in g.nodes : ~(degree(g, n) > mx)})

AfterPass2(g, mn) == Induced(g, {n \in g.nodes : ~(degree(g, n) <= mn)})

C9_DegreesWithinThresholds ==
    bpc = "done" =>
        \A n \in graph.nodes :
            /\ degree(graph, n) >= min_connections
            /\ degree(graph, n) <= max_connections

(***************************************************************************)
(* The result cache                                                        *)
(***************************************************************************)
\* the cache is valid for one hour
TTL == 3600

\* the name of the cache file of a cache type
CacheFileName(cache_type) ==
    IF cache_type = "roles" THEN "roles.txt"
    ELSE IF cache_type = "service_entries" THEN "service_entries.txt"
    ELSE "ValueError"

\* `if data:` is false for None, for an empty list and for an empty dictionary
Truthy(data) == ~data.none /\ DOMAIN data.val # {}

\* pickle.dump(data, fname) into the file opened with 'wb'
Pickled(v) == [kind |-> "pickle", val |-> v]

\* os.path.getsize(cache_file_name) > 0
NonEmptyFile(file) == file.content.kind # "empty"

\* CacheReadable without the comparison of the file's age against the TTL
CacheReadable_no_age(file, t) ==
    /\ file.exists
    /\ NonEmptyFile(file)

\* the three conditions under which the cache file is read
CacheReadable(file, t) ==
    /\ file.exists
    /\ NonEmptyFile(file)
    /\ file.mtime > t - TTL

\* cache(cache_type, data) at time t: the files afterwards, the value returned
\* and whether pickle.load raised
cache(fs, cache_type, data, t) ==
    LET name == CacheFileName(cache_type)
    IN  IF Truthy(data)
        THEN [files  |-> [fs EXCEPT ![name] = [exists |-> TRUE, mtime |-> t,
                                               content |-> Pickled(data.val)]],
              result |-> None,
              raised |-> FALSE]
        ELSE IF CacheReadable(fs[name], t)
        THEN IF fs[name].content.kind = "pickle"
             THEN [files |-> fs, result |-> Some(fs[name].content.val), raised |-> FALSE]
             ELSE [files |-> fs, result |-> None, raised |-> TRUE]
        ELSE [files |-> fs, result |-> None, raised |-> FALSE]

(***************************************************************************)
(* Specification of role enumeration: get_roles_list against a Roles       *)
(* endpoint serving 1..MaxPages pages of 1..MaxPageLen names, with any     *)
(* state of the role-list cache file.                                      *)
(***************************************************************************)
MaxPages == 2

MaxPageLen == 2

RoleNames == {<<"a">>, <<"b">>, <<"b", "-", "1">>}

RECURSIVE ListsUpTo(_, _)
ListsUpTo(S, n) ==
    IF n = 0 THEN {<<>>}
    ELSE LET shorter == ListsUpTo(S, n - 1)
         IN  shorter \cup {Append(l, x) : l \in {t \in shorter : Len(t) = n - 1}, x \in S}

\* a page lists at least one item
NonEmptyLists(S, n) == {l \in ListsUpTo(S, n) : Len(l) >= 1}

\* the states a cache file holding a list can be in at time t
ListFileChoices(t) ==
    {NoFile}
    \cup {[exists |-> TRUE, mtime |-> t - age, content |-> c] :
            age \in {TTL - 600, TTL, TTL + 100},
            c \in {Pickled(<<<<"b">>>>), [kind |-> "garbage", val |-> <<>>],
                   [kind |-> "empty", val |-> <<>>]}}

RTop == rstack[Len(rstack)]

InitRoles ==
    /\ now = 2 * TTL
    /\ \E f \in ListFileChoices(2 * TTL) :
          files = [n \in {"roles.txt", "service_entries.txt"} |->
                      IF n = "roles.txt" THEN f ELSE NoFile]
    /\ clog = <<>>
    /\ self_roles = None
    /\ role_pages \in {ps \in ListsUpTo(NonEmptyLists(RoleNames, MaxPageLen), MaxPages) : Len(ps) >= 1}
    /\ rstack = <<>>
    /\ rpc = "call"
    /\ NormIdle
    /\ BuildIdle
    /\ CollIdle

\* get_roles_list(url=None, refresh), lines 118-127: the outermost call up to
\* the request
GetRolesCall ==
    /\ rpc = "call"
    /\ \E refresh \in BOOLEAN :
          LET c == cache(files, "roles", None, now)
          IN  IF refresh
              THEN /\ rstack' = <<[page |-> 1, roles |-> <<>>, pc |-> "request"]>>
                   /\ rpc' = "run"
                   /\ UNCHANGED self_roles
              ELSE IF c.raised
              THEN /\ rpc' = "crashed"
                   /\ UNCHANGED <<rstack, self_roles>>
              ELSE IF Truthy(c.result)
              THEN /\ self_roles' = c.result
                   /\ rpc' = "cached"
                   /\ UNCHANGED rstack
              ELSE /\ rstack' = <<[page |-> 1, roles |-> <<>>, pc |-> "request"]>>
                   /\ rpc' = "run"
                   /\ UNCHANGED self_roles
    /\ UNCHANGED <<role_pages, cacheVars, normVars, buildVars, collVars>>

\* lines 128-139: request a page, append its names and, if the page has a
\* next cursor, call get_roles_list(url=next, refresh=True); a failed request
\* propagates its exception
RolesRequest ==
    /\ rpc = "run"
    /\ RTop.pc = "request"
    /\ \E ok \in BOOLEAN :
          IF ~ok
          THEN /\ rpc' = "crashed"
               /\ UNCHANGED rstack
          ELSE LET role_names == role_pages[RTop.page]
                   roles == RTop.roles \o role_names
                   has_next == RTop.page < Len(role_pages)
               IN  /\ rstack' =
                        IF has_next
                        THEN Append([rstack EXCEPT ![Len(rstack)] =
                                        [page |-> RTop.page, roles |-> roles, pc |-> "wait"]],
                                    [page |-> RTop.page + 1, roles |-> <<>>, pc |-> "request"])
                        ELSE [rstack EXCEPT ![Len(rstack)] =
                                        [page |-> RTop.page, roles |-> roles, pc |-> "save"]]
                   /\ UNCHANGED rpc
    /\ UNCHANGED <<self_roles, role_pages, cacheVars, normVars, buildVars, collVars>>

\* the value get_roles_list returns: its `return` statements are bare
get_roles_list_result(roles) == None

\* lines 140-147: extend by what the recursive call returned, save to the
\* cache, set self.roles and return
RolesSave ==
    /\ rpc = "run"
    /\ RTop.pc = "save"
    /\ LET c == cache(files, "roles", Some(RTop.roles), now)
           more_data == get_roles_list_result(RTop.roles)
           callers == SubSeq(rstack, 1, Len(rstack) - 1)
           caller == callers[Len(callers)]
       IN  IF c.raised
           THEN /\ rpc' = "crashed"
                /\ UNCHANGED <<rstack, self_roles, files>>
           ELSE /\ files' = c.files
                /\ self_roles' = Some(RTop.roles)
                /\ IF callers = <<>>
                   THEN /\ rstack' = <<>>
                        /\ rpc' = "done"
                   ELSE /\ rstack' = [callers EXCEPT ![Len(callers)] =
                                [page  |-> caller.page,
                                 roles |-> IF Truthy(more_data)
                                           THEN caller.roles \o more_data.val
                                           ELSE caller.roles,
                                 pc    |-> "save"]]
                        /\ UNCHANGED rpc
    /\ UNCHANGED <<role_pages, now, clog, normVars, buildVars, collVars>>

NextRoles ==
    \/ GetRolesCall
    \/ RolesRequest
    \/ RolesSave

SpecRoles == InitRoles /\ [][NextRoles]_vars

RECURSIVE Concat(_)
\* the concatenation, in order, of a sequence of lists
Concat(ls) == IF ls = <<>> THEN <<>> ELSE Head(ls) \o Concat(Tail(ls))

\* C3: when get_roles_list has gone to the network and returned, self.roles
\* and the role-list cache file both hold the names of all pages, in page
\* order.
C3_AllPagesCollected ==
    rpc = "done" =>
        /\ self_roles = Some(Concat(role_pages))
        /\ files["roles.txt"].exists
        /\ files["roles.txt"].content = Pickled(Concat(role_pages))

(***************************************************************************)
(* Collection of the adjacency relation                                    *)
(***************************************************************************)
graphVars == <<graph, stack, bpc, seed, seeds, ncalls, clean_arg, min_connections,
               max_connections>>

\* ord(c) of the characters that occur in the names
CharCode == "-" :> 45 @@ "1" :> 49 @@ "a" :> 97 @@ "b" :> 98 @@ "c" :> 99

RECURSIVE StrLess(_, _)
\* s < t for Python strings
StrLess(s, t) ==
    IF t = <<>> THEN FALSE
    ELSE IF s = <<>> THEN TRUE
    ELSE IF Head(s) = Head(t) THEN StrLess(Tail(s), Tail(t))
    ELSE CharCode[Head(s)] < CharCode[Head(t)]

RECURSIVE Insert(_, _)
Insert(x, l) ==
    IF l = <<>> THEN <<x>>
    ELSE IF StrLess(x, Head(l)) THEN <<x>> \o l
    ELSE <<Head(l)>> \o Insert(x, Tail(l))

RECURSIVE Sorted(_)
\* sorted(self.roles)
Sorted(l) == IF l = <<>> THEN <<>> ELSE Insert(Head(l), Sorted(Tail(l)))

\* self.service_entries[key].add(member)
AddMember(se, key, member) ==
    [k \in DOMAIN se \cup {key} |-> IF k = key THEN Lookup(se, key) \cup {member} ELSE se[k]]

RECURSIVE AddBackends(_, _, _)
\* lines 168-169: for backend in backends: self.service_entries[role].add(backend)
AddBackends(se, role, backends) ==
    IF backends = <<>> THEN se
    ELSE AddBackends(AddMember(se, role, Head(backends)), role, Tail(backends))

\* lines 164-171: one service entry; an entry without a backend list raises
\* KeyError before anything is added, and is passed over
AddEntry(se, entry) ==
    IF entry.backends.none THEN se
    ELSE AddBackends(se, simplify_service_name(entry.service_name), entry.backends.val)

RECURSIVE AddEntries(_, _)
\* line 163: for service in results['items']
AddEntries(se, items) ==
    IF items = <<>> THEN se
    ELSE AddEntries(AddEntry(se, Head(items)), Tail(items))

\* url = f"{battlestar}/Roles/%s/Rules"
TemplateUrl == [kind |-> "template", role |-> <<>>, page |-> 0]

\* a next-page cursor of the Rules endpoint: a complete URL
CursorUrl(role, page) == [kind |-> "cursor", role |-> role, page |-> page]

\* url % source_role: the template becomes the URL of the role's first page;
\* a cursor has no %s to fill and the operator raises TypeError
FormatUrl(url, source_role) ==
    IF url.kind = "template"
    THEN [raised |-> FALSE, role |-> source_role, page |-> 1]
    ELSE [raised |-> TRUE, role |-> url.role, page |-> url.page]

(***************************************************************************)
(* Specification of collection: fetch_backends_from_battlestar with its    *)
(* parent thread and NumThreads workers, against endpoints chosen from a   *)
(* few role lists, service entry pages and rule pages, with up to MaxFails *)
(* failing requests.                                                       *)
(***************************************************************************)
NumThreads == 2

MaxFails == 2

Workers == 1..NumThreads

\* what get_roles_list can have left in self.roles
RoleLists == {<<<<"b">>, <<"a">>>>, <<<<"b", "-", "1">>, <<"a">>>>}

Entry(name, backends) == [service_name |-> name, backends |-> backends]

EntryPageChoices ==
    { << <<Entry(<<"a", "-", "1">>, Some(<<<<"b", "-", "1">>, <<"c">>>>))>> >>,
      << <<Entry(<<"a">>, Some(<<<<"b">>>>)), Entry(<<"b">>, None)>>,
         <<Entry(<<"c">>, Some(<<<<"a">>, <<"b">>>>))>> >> }

RulePageChoices ==
    { << <<<<"c", "-", "1">>>> >>,
      << <<<<"c">>, <<"a">>>> >>,
      << <<<<"c">>>>, <<<<"a">>>> >> }

\* the states the adjacency cache file can be in at time t
AdjFileChoices(t) ==
    { NoFile,
      [exists |-> TRUE, mtime |-> t - (TTL - 600),
       content |-> Pickled(<<"c">> :> {<<"a">>})],
      [exists |-> TRUE, mtime |-> t - (TTL + 100),
       content |-> Pickled(<<"c">> :> {<<"a">>})] }

RolesOf(l) == {l[i] : i \in 1..Len(l)}

InitCollect ==
    /\ now = 2 * TTL
    /\ \E f \in AdjFileChoices(2 * TTL) :
          files = [n \in {"roles.txt", "service_entries.txt"} |->
                      IF n = "service_entries.txt" THEN f ELSE NoFile]
    /\ clog = <<>>
    /\ \E l \in RoleLists :
          /\ self_roles = Some(l)
          /\ rule_pages \in [RolesOf(l) -> RulePageChoices]
    /\ entry_pages \in EntryPageChoices
    /\ role_pages = <<>>
    /\ rstack = <<>>
    /\ rpc = "idle"
    /\ ppc = "call"
    /\ epages_done = 0
    /\ q = <<>>
    /\ unfinished = 0
    /\ wpc = [w \in Workers |-> "unstarted"]
    /\ wrole = [w \in Workers |-> <<>>]
    /\ wurl = [w \in Workers |-> TemplateUrl]
    /\ witems = [w \in Workers |-> <<>>]
    /\ wnext = [w \in Workers |-> 0]
    /\ wdest = [w \in Workers |-> <<>>]
    /\ fails = 0
    /\ NormIdle
    /\ BuildIdle

workerVars == <<wpc, wrole, wurl, witems, wnext, wdest>>

serverVars == <<entry_pages, rule_pages>>

collFrame == <<normVars, graphVars, rolesVars, serverVars, now, clog>>

\* fetch_backends_from_battlestar, lines 222-226: use the cache unless a
\* refresh is asked for
FetchBackendsCall ==
    /\ ppc = "call"
    /\ \E refresh \in BOOLEAN :
          LET c == cache(files, "service_entries", None, now)
          IN  IF refresh
              THEN /\ ppc' = "entries"
                   /\ UNCHANGED service_entries
              ELSE IF c.raised
              THEN /\ ppc' = "crashed"
                   /\ UNCHANGED service_entries
              ELSE IF Truthy(c.result)
              THEN /\ service_entries' = c.result.val
                   /\ ppc' = "cached"
              ELSE /\ ppc' = "entries"
                   /\ UNCHANGED service_entries
    /\ UNCHANGED <<files, epages_done, q, unfinished, workerVars, fails, collFrame>>

\* fetch_service_entries, lines 154-177: one turn of the loop; a failed
\* request ends the function, a page without a next cursor ends the loop
FetchEntriesPage ==
    /\ ppc = "entries"
    /\ \E ok \in BOOLEAN :
          IF ~ok
          THEN /\ fails < MaxFails
               /\ fails' = fails + 1
               /\ ppc' = "spawn"
               /\ UNCHANGED <<service_entries, epages_done>>
          ELSE /\ service_entries' = AddEntries(service_entries, entry_pages[epages_done + 1])
               /\ epages_done' = epages_done + 1
               /\ ppc' = IF epages_done + 1 < Len(entry_pages) THEN "entries" ELSE "spawn"
               /\ UNCHANGED fails
    /\ UNCHANGED <<files, q, unfinished, workerVars, collFrame>>

\* fetch_backends_from_battlestar, lines 231-238: fill the queue with the
\* sorted roles and start the workers
SpawnWorkers ==
    /\ ppc = "spawn"
    /\ q' = Sorted(self_roles.val)
    /\ unfinished' = Len(self_roles.val)
    /\ wpc' = [w \in Workers |-> "get"]
    /\ ppc' = "join"
    /\ UNCHANGED <<service_entries, files, epages_done, wrole, wurl, witems, wnext,
                   wdest, fails, collFrame>>

\* line 186: source_role = q.get(), which blocks while the queue is empty
WorkerGet(w) ==
    /\ wpc[w] = "get"
    /\ q # <<>>
    /\ wrole' = [wrole EXCEPT ![w] = Head(q)]
    /\ q' = Tail(q)
    /\ wpc' = [wpc EXCEPT ![w] = "request"]
    /\ UNCHANGED <<service_entries, files, ppc, epages_done, unfinished, wurl, witems,
                   wnext, wdest, fails, collFrame>>

\* lines 190-196: format the URL, request the page and parse it; whatever is
\* raised in between leads to the except branch
WorkerRequest(w) ==
    /\ wpc[w] = "request"
    /\ LET target == FormatUrl(wurl[w], wrole[w])
           pages == rule_pages[target.role]
       IN  \E ok \in BOOLEAN :
              IF target.raised
              THEN /\ ok
                   /\ wpc' = [wpc EXCEPT ![w] = "except"]
                   /\ UNCHANGED <<witems, wnext, fails>>
              ELSE IF ~ok
              THEN /\ fails < MaxFails
                   /\ fails' = fails + 1
                   /\ wpc' = [wpc EXCEPT ![w] = "except"]
                   /\ UNCHANGED <<witems, wnext>>
              ELSE /\ witems' = [witems EXCEPT ![w] = pages[target.page]]
                   /\ wnext' = [wnext EXCEPT ![w] =
                                   IF target.page < Len(pages) THEN target.page + 1 ELSE 0]
                   /\ wpc' = [wpc EXCEPT ![w] = "rules"]
                   /\ UNCHANGED fails
    /\ UNCHANGED <<service_entries, files, ppc, epages_done, q, unfinished, wrole, wurl,
                   wdest, collFrame>>

\* line 200: q.task_done() in the except branch
WorkerExceptTaskDone(w) ==
    /\ wpc[w] = "except"
    /\ unfinished' = unfinished - 1
    /\ wpc' = [wpc EXCEPT ![w] = "put"]
    /\ UNCHANGED <<service_entries, files, ppc, epages_done, q, wrole, wurl, witems,
                   wnext, wdest, fails, collFrame>>

\* lines 201-202: q.put(source_role) and return, which ends the thread
WorkerExceptPut(w) ==
    /\ wpc[w] = "put"
    /\ q' = Append(q, wrole[w])
    /\ unfinished' = unfinished + 1
    /\ wpc' = [wpc EXCEPT ![w] = "returned"]
    /\ UNCHANGED <<service_entries, files, ppc, epages_done, wrole, wurl, witems,
                   wnext, wdest, fails, collFrame>>

\* lines 203-208, first half: take the next rule, normalize its ingress role
\* and read self.service_entries[destination_role], which creates the key
WorkerRuleLookup(w) ==
    /\ wpc[w] = "rules"
    /\ witems[w] # <<>>
    /\ LET destination_role == simplify_service_name(Head(witems[w]))
       IN  /\ wdest' = [wdest EXCEPT ![w] = destination_role]
           /\ service_entries' = Touch(service_entries, destination_role)
    /\ witems' = [witems EXCEPT ![w] = Tail(witems[w])]
    /\ wpc' = [wpc EXCEPT ![w] = "add"]
    /\ UNCHANGED <<files, ppc, epages_done, q, unfinished, wrole, wurl, wnext, fails,
                   collFrame>>

\* line 208, second half: .add(source_role) on the set that was read
WorkerRuleAdd(w) ==
    /\ wpc[w] = "add"
    /\ service_entries' = AddMember(service_entries, wdest[w], wrole[w])
    /\ wpc' = [wpc EXCEPT ![w] = "rules"]
    /\ UNCHANGED <<files, ppc, epages_done, q, unfinished, wrole, wurl, witems, wnext,
                   wdest, fails, collFrame>>

\* lines 210-214: after the last rule of the page, either continue with the
\* next cursor as url, or leave the loop, q.task_done() and go back to q.get()
WorkerPageEnd(w) ==
    /\ wpc[w] = "rules"
    /\ witems[w] = <<>>
    /\ IF wnext[w] # 0
       THEN /\ wurl' = [wurl EXCEPT ![w] = CursorUrl(wrole[w], wnext[w])]
            /\ wpc' = [wpc EXCEPT ![w] = "request"]
            /\ UNCHANGED unfinished
       ELSE /\ unfinished' = unfinished - 1
            /\ wpc' = [wpc EXCEPT ![w] = "get"]
            /\ UNCHANGED wurl
    /\ UNCHANGED <<service_entries, files, ppc, epages_done, q, wrole, witems, wnext,
                   wdest, fails, collFrame>>

\* line 239: q.join() returns when unfinished_tasks is zero
ParentJoin ==
    /\ ppc = "join"
    /\ unfinished = 0
    /\ ppc' = "save"
    /\ UNCHANGED <<service_entries, files, epages_done, q, unfinished, workerVars,
                   fails, collFrame>>

\* lines 241-244: save the adjacency relation to the cache and return
ParentSave ==
    /\ ppc = "save"
    /\ LET c == cache(files, "service_entries", Some(service_entries), now)
       IN  IF c.raised
           THEN /\ ppc' = "crashed"
                /\ UNCHANGED files
           ELSE /\ files' = c.files
                /\ ppc' = "done"
    /\ UNCHANGED <<service_entries, epages_done, q, unfinished, workerVars, fails,
                   collFrame>>

WorkerStep(w) ==
    \/ WorkerGet(w)
    \/ WorkerRequest(w)
    \/ WorkerExceptTaskDone(w)
    \/ WorkerExceptPut(w)
    \/ WorkerRuleLookup(w)
    \/ WorkerRuleAdd(w)
    \/ WorkerPageEnd(w)

ParentStep ==
    \/ FetchBackendsCall
    \/ FetchEntriesPage
    \/ SpawnWorkers
    \/ ParentJoin
    \/ ParentSave

NextCollect ==
    \/ ParentStep
    \/ \E w \in Workers : WorkerStep(w)

SpecCollect == InitCollect /\ [][NextCollect]_vars

\* every thread that can take a step eventually takes one
FairCollect ==
    /\ SpecCollect
    /\ WF_vars(ParentStep)
    /\ \A w \in Workers : WF_vars(WorkerStep(w))

(***************************************************************************)
(* Properties of collection                                                *)
(***************************************************************************)
\* no role is waiting in the queue or in the hands of a worker: every role
\* has been paginated to its last page and acknowledged on line 214
AllRolesFetched ==
    /\ q = <<>>
    /\ \A w \in Workers : wpc[w] \in {"get", "returned"}

\* C1: the parent is past q.join(), about to write the adjacency cache, only
\* when every role, re-enqueued ones included, has been fetched to the end.
C1_BarrierMeansAllFetched == ppc = "save" => AllRolesFetched

\* every role has a single page of rules, so that no fetch fails for ever
SinglePageRules == \A r \in DOMAIN rule_pages : Len(rule_pages[r]) = 1

\* C2: with fair scheduling and finitely many failing requests, a collection
\* that has started its workers eventually has every role fetched and the
\* barrier released.
C2_CollectionCompletes ==
    SinglePageRules =>
        ((ppc = "join") ~> (ppc \in {"save", "done"} /\ AllRolesFetched))

\* the roles whose firewall rules, on any page, name an ingress role that
\* normalizes to key
InvertedRules(key) ==
    {r \in DOMAIN rule_pages :
        \E p \in 1..Len(rule_pages[r]) :
            \E i \in 1..Len(rule_pages[r][p]) :
                simplify_service_name(rule_pages[r][p][i]) = key}

\* the adjacency relation after step 2 when every page was fetched
ForwardAdjacency == AddEntries(<<>>, Concat(entry_pages))

CollectKeys ==
    DOMAIN service_entries \cup DOMAIN ForwardAdjacency
        \cup {simplify_service_name(n) : n \in {<<"a">>, <<"b">>, <<"c">>}}

\* C4: when no request has failed, the adjacency relation at the release of
\* the barrier is the forward adjacency united with the inverted rules of
\* every page of every role, whatever the interleaving was.
C4_AdjacencyAtRelease ==
    (ppc = "save" /\ fails = 0) =>
        \A k \in CollectKeys :
            Lookup(service_entries, k) = Lookup(ForwardAdjacency, k) \cup InvertedRules(k)

\* the service entries of the pages fetch_service_entries has processed
ProcessedEntries == Concat(SubSeq(entry_pages, 1, epages_done))

\* C5: when fetch_service_entries is over, every backend B declared by a
\* processed entry of role S is in the set of normalize(S) under its
\* normalized name, and no set holds a name that is not normalized.
C5_BothSidesNormalized ==
    ppc = "spawn" =>
        /\ \A i \in 1..Len(ProcessedEntries) :
              LET e == ProcessedEntries[i]
              IN  ~e.backends.none =>
                      \A j \in 1..Len(e.backends.val) :
                          simplify_service_name(e.backends.val[j])
                              \in Lookup(service_entries, simplify_service_name(e.service_name))
        /\ \A k \in DOMAIN service_entries :
              \A m \in service_entries[k] : simplify_service_name(m) = m

(***************************************************************************)
(* Specification of the cache alone: cache(type, data) and cache(type)     *)
(* called for both types with a few payloads, the empty ones included,     *)
(* while the clock moves on; the files start absent, corrupt, empty or     *)
(* stale.                                                                  *)
(***************************************************************************)
CacheTypes == {"roles", "service_entries"}

\* the payloads the program passes for a cache type
Payloads(cache_type) ==
    IF cache_type = "roles"
    THEN {<<>>, <<<<"a">>>>, <<<<"b">>, <<"a">>>>}
    ELSE {<<>>, <<"c">> :> {<<"a">>}, <<"a">> :> {<<"b">>, <<"c">>}}

\* how far past the TTL the clock is followed
ClockSlack == 100

\* the amounts by which the clock moves between two calls
TickSteps == {TTL \div 2, TTL \div 2 + ClockSlack}

ClockStart == 2 * TTL

ClockEnd == ClockStart + TTL + ClockSlack

\* the payload an earlier run has left in the cache file of a type
StalePayload(cache_type) ==
    IF cache_type = "roles" THEN <<<<"b">>>> ELSE <<"b">> :> {<<"a">>}

\* the states the cache file of a type can be in when the program starts at
\* time t
StartFileChoices(cache_type, t) ==
    { NoFile,
      [exists |-> TRUE, mtime |-> t, content |-> [kind |-> "garbage", val |-> <<>>]],
      [exists |-> TRUE, mtime |-> t, content |-> [kind |-> "empty", val |-> <<>>]],
      [exists |-> TRUE, mtime |-> t - (TTL + ClockSlack), content |-> Pickled(StalePayload(cache_type))] }

\* the call log with one more call, cut to its last two entries
Logged(log, call) == IF log = <<>> THEN <<call>> ELSE <<Last(log), call>>

\* an exception has left cache(): the program has ended
CacheCrashed == clog # <<>> /\ Last(clog).raised

InitCache ==
    /\ now = ClockStart
    /\ \E r \in StartFileChoices("roles", ClockStart) :
          \E e \in StartFileChoices("service_entries", ClockStart) :
             files = [n \in {"roles.txt", "service_entries.txt"} |->
                         IF n = "roles.txt" THEN r ELSE e]
    /\ clog = <<>>
    /\ NormIdle
    /\ BuildIdle
    /\ RolesIdle
    /\ CollIdle

\* self.cache(cache_type, data), as on lines 144 and 242
CacheWriteCall ==
    /\ ~CacheCrashed
    /\ \E cache_type \in CacheTypes :
          \E data \in Payloads(cache_type) :
             LET c == cache(files, cache_type, Some(data), now)
             IN  /\ files' = c.files
                 /\ clog' = Logged(clog, [op |-> "write", type |-> cache_type,
                                          data |-> Some(data), result |-> c.result,
                                          raised |-> c.raised])
    /\ UNCHANGED <<now, normVars, buildVars, rolesVars, collVars>>

\* self.cache(cache_type), as on lines 121 and 223
CacheReadCall ==
    /\ ~CacheCrashed
    /\ \E cache_type \in CacheTypes :
          LET c == cache(files, cache_type, None, now)
          IN  /\ files' = c.files
              /\ clog' = Logged(clog, [op |-> "read", type |-> cache_type,
                                       data |-> None, result |-> c.result,
                                       raised |-> c.raised])
    /\ UNCHANGED <<now, normVars, buildVars, rolesVars, collVars>>

\* time.time() moves on between two calls
Tick ==
    /\ ~CacheCrashed
    /\ \E step \in TickSteps :
          /\ now + step <= ClockEnd
          /\ now' = now + step
    /\ clog' = <<>>
    /\ UNCHANGED <<files, normVars, buildVars, rolesVars, collVars>>

NextCache ==
    \/ CacheWriteCall
    \/ CacheReadCall
    \/ Tick

SpecCache == InitCache /\ [][NextCache]_vars

\* the last call of cache() and the file of its cache type
LastCall == Last(clog)

LastFile == files[CacheFileName(LastCall.type)]

\* C12: a non-empty payload written at time T is stored with timestamp T; a
\* read at time t returns that payload when t - T < 3600 and returns nothing
\* when t - T > 3600; a read of an absent or zero-size file returns nothing.
C12_FreshHitStaleMiss ==
    clog # <<>> =>
        /\ (LastCall.op = "write" /\ Truthy(LastCall.data)) =>
               LastFile = [exists |-> TRUE, mtime |-> now,
                           content |-> Pickled(LastCall.data.val)]
        /\ (LastCall.op = "read" /\ LastFile.exists
                /\ LastFile.content.kind = "pickle") =>
               /\ now - LastFile.mtime < TTL =>
                      /\ ~LastCall.raised
                      /\ LastCall.result = Some(LastFile.content.val)
               /\ now - LastFile.mtime > TTL =>
                      /\ ~LastCall.raised
                      /\ LastCall.result = None
        /\ (LastCall.op = "read"
                /\ (~LastFile.exists \/ LastFile.content.kind = "empty")) =>
               /\ ~LastCall.raised
               /\ LastCall.result = None

\* the role list written 1800 s ago is returned and the adjacency relation
\* written 3700 s ago is not
C12_Witness ==
    /\ Len(clog) = 2
    /\ clog[1].op = "read" /\ clog[1].type = "roles"
    /\ files["roles.txt"].content.kind = "pickle"
    /\ now - files["roles.txt"].mtime = TTL \div 2
    /\ clog[1].result = Some(<<<<"b">>, <<"a">>>>)
    /\ clog[2].op = "read" /\ clog[2].type = "service_entries"
    /\ files["service_entries.txt"].content.kind = "pickle"
    /\ files["service_entries.txt"].content.val = <<"c">> :> {<<"a">>}
    /\ now - files["service_entries.txt"].mtime = TTL + ClockSlack
    /\ clog[2].result = None

\* C13: a read that immediately follows a write of the same type returns the
\* payload just written, whatever the payload (an empty list or relation too).
C13_WriteThenRead ==
    (/\ Len(clog) = 2
     /\ clog[1].op = "write"
     /\ clog[2].op = "read"
     /\ clog[2].type = clog[1].type) =>
        /\ ~clog[2].raised
        /\ clog[2].result = clog[1].data

\* C14: a read of a cache file that exists, is not empty and is within its TTL
\* but holds no valid pickle returns nothing and raises no error.
C14_CorruptIsMiss ==
    (/\ clog # <<>>
     /\ LastCall.op = "read"
     /\ LastFile.exists
     /\ LastFile.content.kind = "garbage"
     /\ now - LastFile.mtime < TTL) =>
        /\ ~LastCall.raised
        /\ LastCall.result = None

\* C15: once collection is complete no step of main's loop, get_backends or
\* build_graph changes the adjacency relation: its keys and the set stored
\* under every key stay as they were.
C15_AdjacencyFrozen == [][service_entries' = service_entries]_vars

\* the workers whose thread has not ended
LiveWorkers == {w \in Workers : wpc[w] # "returned"}

\* C16: while the parent waits at the barrier no worker has terminated: the
\* number of live workers equals the size of the pool.
C16_PoolStaysFull ==
    ppc = "join" => Cardinality(LiveWorkers) = NumThreads

\* the page a worker has to request next for the role it holds: the first
\* page after dequeuing, afterwards the page its previous response pointed to
PageDue(w) == IF wnext[w] = 0 THEN 1 ELSE wnext[w]

\* C17: every request of a worker is a request for a page of the role it has
\* dequeued: that role's first page at first, then the pages named by that
\* role's cursors, whatever url an earlier page or role has left behind.
C17_RequestsFollowOwnPages ==
    \A w \in Workers :
        wpc[w] = "request" =>
            LET target == FormatUrl(wurl[w], wrole[w])
            IN  /\ ~target.raised
                /\ target.role = wrole[w]
                /\ target.page = PageDue(w)

(***************************************************************************)
(* Specification of the graph builder over three roles with names of their *)
(* own: the adjacency relation is any relation over them, so it contains   *)
(* self-dependencies, mutual dependencies and directed cycles of length 3. *)
(***************************************************************************)
CycleNames == {<<"a">>, <<"b">>, <<"c">>}

InitCycle ==
    /\ \E f \in [CycleNames -> SUBSET CycleNames] :
          service_entries = Restrict(f, {k \in CycleNames : f[k] # {}})
    /\ graph = EmptyGraph
    /\ stack = <<>>
    /\ bpc = "main"
    /\ seed = <<>>
    /\ seeds = <<>>
    /\ ncalls = 0
    /\ clean_arg = EmptyGraph
    /\ min_connections = 0
    /\ max_connections = 0
    /\ NormIdle
    /\ CacheIdle
    /\ RolesIdle
    /\ CollIdle

SpecCycle == InitCycle /\ [][NextBuild]_vars

\* the names that can become nodes of the graph
AllNames == BuildNames \cup CycleNames

\* the unordered pairs of names with no edge in either direction
Unjoined(g) ==
    {p \in SUBSET AllNames :
        /\ Cardinality(p) = 2
        /\ \A x \in p, y \in p : ~has_edge(g, x, y)}

RECURSIVE Pending(_)
\* the loop iterations and returns the active calls of build_graph still owe
Pending(st) ==
    IF st = <<>> THEN 0
    ELSE Cardinality(Head(st).todo) + 1 + Pending(Tail(st))

\* a measure that bounds the steps build_graph can still take
BuildVariant ==
    Cardinality(Unjoined(graph)) * (Cardinality(AllNames) + 1) + Pending(stack)

\* this step enters a recursive call for d right after adding the edge s -> d
\* between two roles that no edge joined
JoinsNewPair ==
    \E s \in AllNames, d \in AllNames :
        /\ s # d
        /\ ~has_edge(graph, s, d)
        /\ ~has_edge(graph, d, s)
        /\ graph' = add_edge(graph, s, d)
        /\ stack'[Len(stack')].service = d

\* C18: build_graph terminates on every adjacency relation, cyclic ones
\* included: every step of a running build lowers a natural-number measure,
\* and every recursive call comes right after the insertion of an edge between
\* two roles that had no edge in either direction, so there are at most as
\* many recursive calls as unordered pairs of roles.
C18_BuildTerminates ==
    [][bpc = "build" =>
          /\ BuildVariant' < BuildVariant
          /\ Len(stack') > Len(stack) => JoinsNewPair]_vars

\* a build over the cycle a -> b -> c -> a has returned
C18_Witness ==
    /\ bpc = "main"
    /\ ncalls = 1
    /\ <<"b">> \in Lookup(service_entries, <<"a">>)
    /\ <<"c">> \in Lookup(service_entries, <<"b">>)
    /\ <<"a">> \in Lookup(service_entries, <<"c">>)
    /\ {<<<<"a">>, <<"b">>>>, <<<<"b">>, <<"c">>>>, <<<<"c">>, <<"a">>>>} \subseteq graph.edges

\* the dependencies of s that build_graph does not skip for being s itself or
\* for the exclusion pattern
Eligible(s) ==
    {d \in get_backends(service_entries, s) :
        d # s /\ ~dbre_search(s) /\ ~dbre_search(d)}

RECURSIVE ReachFrom(_)
\* the least set that contains R and is closed under Eligible
ReachFrom(R) ==
    LET R2 == R \cup UNION {Eligible(s) : s \in R}
    IN  IF R2 = R THEN R ELSE ReachFrom(R2)

Reach == ReachFrom({seeds[i] : i \in 1..Len(seeds)})

\* the unordered pairs joined by an edge of g
JoinedPairs(g) == {{e[1], e[2]} : e \in g.edges}

\* the pairs of a role that the builds reach and one of its eligible
\* dependencies
ExpectedPairs == UNION {{{s, d} : d \in Eligible(s)} : s \in Reach}

\* C19: when the builds from the seeds so far have returned, the unordered
\* pairs joined by an edge are exactly the pairs {s, d} with s in Reach and d
\* an eligible dependency of s; every edge s -> d has d in get_backends(s); no
\* node is left with an eligible dependency it has no edge with.
C19_EdgesAreReachClosure ==
    bpc = "main" =>
        /\ JoinedPairs(graph) = ExpectedPairs
        /\ \A e \in graph.edges : e[2] \in get_backends(service_entries, e[1])
        /\ \A n \in graph.nodes : \A d \in Eligible(n) :
              has_edge(graph, n, d) \/ has_edge(graph, d, n)

\* two seeds, a dependency reached through another one and a database skipped
C19_Witness ==
    /\ bpc = "main"
    /\ seeds = <<<<"b">>, <<"a">>>>
    /\ get_backends(service_entries, <<"a">>) = {<<"b">>, <<"m", "y", "s", "q", "l">>}
    /\ get_backends(service_entries, <<"b">>) = {<<"b", "-", "1">>}
    /\ graph.edges = {<<<<"b">>, <<"b", "-", "1">>>>, <<<<"a">>, <<"b">>>>}

\* the graph build_graph returns for the same relation and seeds when every
\* dependency set is iterated in the fixed order of BuildLoop
FixedOrderGraph == BuildSeeds(service_entries, EmptyGraph, seeds)

\* each of the two roles is a dependency of the other
MutualDependency(s, d) ==
    /\ d \in get_backends(service_entries, s)
    /\ s \in get_backends(service_entries, d)

\* C20 as stated: for a fixed adjacency relation and list of seeds the
\* directed edge set is the same for every iteration order of the dependency
\* sets, so it equals the edge set that one fixed order produces.
C20_SameEdgesForEveryOrder ==
    bpc = "main" => graph.edges = FixedOrderGraph.edges

\* C20: for a fixed adjacency relation and list of seeds every iteration
\* order joins the same unordered pairs, each by one directed edge; an edge
\* can point the other way than under another order only between two roles
\* that depend on each other.
C20_SamePairsForEveryOrder ==
    bpc = "main" =>
        /\ JoinedPairs(graph) = JoinedPairs(FixedOrderGraph)
        /\ \A e \in graph.edges :
              /\ ~has_edge(graph, e[2], e[1])
              /\ \/ has_edge(FixedOrderGraph, e[1], e[2])
                 \/ /\ has_edge(FixedOrderGraph, e[2], e[1])
                    /\ MutualDependency(e[1], e[2])

\* b and c depend on each other and a on both: this order and the fixed
\* order have joined b and c in opposite directions
C20_Witness ==
    /\ bpc = "main"
    /\ seeds = <<<<"a">>>>
    /\ MutualDependency(<<"b">>, <<"c">>)
    /\ get_backends(service_entries, <<"a">>) = {<<"b">>, <<"c">>}
    /\ \/ has_edge(graph, <<"c">>, <<"b">>) /\ has_edge(FixedOrderGraph, <<"b">>, <<"c">>)
       \/ has_edge(graph, <<"b">>, <<"c">>) /\ has_edge(FixedOrderGraph, <<"c">>, <<"b">>)
    /\ JoinedPairs(graph) = JoinedPairs(FixedOrderGraph)

====
